---------------------------- MODULE Spec2Model ----------------------------
(***************************************************************************)
(* A model of hydroDL2's HBV models:                                       *)
(*   - hbv_adj.py : NewtonSolve (forward / backward), MOL.nsteps_pDyn,     *)
(*                  HBV_adj parameter handling;                            *)
(*   - hbv_1_1p.py: HBVCapillary explicit stepper and parameter handling.  *)
(*                                                                         *)
(* Numbers.  The Newton solver works on exact extended rationals <<n, d>>  *)
(* with d >= 0: d = 0 encodes the non-finite values a float can take       *)
(* (<<1,0>> = +inf, <<-1,0>> = -inf, <<0,0>> = NaN).  The explicit stepper *)
(* works on fixed-point integers, one unit = 1e-6 mm.                      *)
(***************************************************************************)
EXTENDS Integers, Sequences, FiniteSets, TLC

VARIABLES
    \* ---- NewtonSolve.forward / backward, MOL.nsteps_pDyn ----
    G,          \* the residual callable handed to the solver (a record)
    evalMode,   \* the 'eval' argument
    p,          \* parameter input of the current solve, per batch element
    p2,         \* second parameter input (None or per batch element)
    pDyn,       \* MOL: the parameter series, pDyn[t][e]
    x,          \* current iterate, per batch element
    i,          \* the loop counter of NewtonSolve.forward
    gg,         \* residual at the last evaluation point
    dGdx,       \* last computed state Jacobian
    resnorm,    \* infinity-norm of gg per element
    resnorm0,   \* the previous resnorm
    saved,      \* ctx.saved_tensors of the current solve
    pc,         \* control position
    t,          \* MOL.nsteps_pDyn loop index (number of completed steps)
    xt,         \* MOL.nsteps_pDyn previous state
    ySolution,  \* MOL.nsteps_pDyn trajectory
    ctxs,       \* ctx.saved_tensors of every completed solve
    bt,         \* backward: index of the solve whose backward runs next
    dLdx,       \* backward: upstream gradient of the current backward call
    grads,      \* backward: the tuple returned by the last backward call
    \* ---- HBVCapillary.forward (explicit stepper), one basin ----
    SNOWPACK,   \* storages, per realization (nmul), in units of 1e-6 mm
    MELTWATER,
    SM,
    SUZ,
    SLZ,
    param_dict, \* bounded parameters, per realization
    forcing,    \* the forcing series of the basin: <<first day, later days>>
    step,       \* the loop index t of the time loop (days done)
    flux,       \* the row the last day wrote into the output series
    \* ---- parameter unpacking of both models ----
    model,          \* "HBV_1_1p" or "HBV_adj"
    dy_params,      \* the names configured as dynamic
    dy_drop,        \* the drop probability, <<num, den>>
    static_idx,     \* the configured index of the static row
    name_idx,       \* parameters already unpacked
    drmask,         \* name -> the mask drawn for it
    parameter_dict, \* name -> the unpacked parameter
    warm_up,        \* the configured number of warm-up steps
    warm_up_states, \* HBV_1_1p: warm-up by a separate state run
    phy_params_warmup, \* HBV_adj: the parameters of the warm-up run
    phase,          \* "warmup", "unpack", "stepping" or "KeyError"
    computed,       \* time steps computed so far
    \* ---- the forward evaluation around the time loop ----
    config_given,   \* the constructor received a config
    routing,
    comprout,
    initialize,     \* warm-up mode of HBVCapillary
    bounds_keys,    \* the keys of self.parameter_bounds, in order
    rout_params_name,
    locals,         \* the local names assigned so far
    out_dict,       \* the returned dictionary, as <<key, tensor>> in order
    trunc_idx,      \* entries of out_dict already truncated
    fpc,            \* position in forward
    error,          \* the exception raised, or "none"
    \* ---- one evaluation of HBV_function.forward ----
    y,              \* the state of one batch element
    theta,          \* its scaled parameters
    climate_in,     \* its forcing row <<P, T, Ep>>
    returnFlux,
    parameter_bounds,
    rhs_pc,         \* "none", "called", "returned" or "KeyError"
    rhs_out,        \* the returned tuple
    \* ---- the merge of realizations in HBV_adj.forward ----
    nmul,
    n_grid,
    n_steps,
    parameters,     \* raw network output
    x_phy,          \* forcing series
    phy_params,     \* merged physical parameters
    x_warmup,       \* merged forcing of the warm-up
    xTrain,         \* merged forcing of the run
    simulation,     \* simulated flow, merged and then averaged
    mpc             \* position in forward

newtonVars == <<G, evalMode, p, p2, pDyn, x, i, gg, dGdx, resnorm, resnorm0,
                saved, pc, t, xt, ySolution, ctxs, bt, dLdx, grads>>

hbvVars == <<SNOWPACK, MELTWATER, SM, SUZ, SLZ, param_dict, forcing, step, flux>>

maskVars == <<model, dy_params, dy_drop, static_idx, name_idx, drmask, parameter_dict,
              warm_up, warm_up_states, phy_params_warmup, phase, computed>>

fwdVars == <<config_given, routing, comprout, initialize, bounds_keys,
             rout_params_name, locals, out_dict, trunc_idx, fpc, error>>

rhsVars == <<y, theta, climate_in, returnFlux, parameter_bounds, rhs_pc, rhs_out>>

mergeVars == <<nmul, n_grid, n_steps, parameters, x_phy, phy_params, x_warmup, xTrain,
               simulation, mpc>>

vars == <<newtonVars, hbvVars, maskVars, fwdVars, rhsVars, mergeVars>>

\* Python's None (a value comparable with tensors)
None == <<>>

-----------------------------------------------------------------------------
(* Bounds of the model *)
BatchSize == 2
MaxRho == 2
NMul == 2
NGrid == 2
NSteps == 3
MaxSteps == 23

Batch == 1..BatchSize

-----------------------------------------------------------------------------
(* Extended rational arithmetic (torch float arithmetic, exact) *)

Abs(n) == IF n < 0 THEN -n ELSE n

Sgn(n) == IF n > 0 THEN 1 ELSE IF n < 0 THEN -1 ELSE 0

RECURSIVE Gcd(_, _)
Gcd(a, b) == IF b = 0 THEN a ELSE Gcd(b, a % b)

Norm(n, d) ==
    IF d = 0 THEN <<Sgn(n), 0>>
    ELSE LET g == Gcd(Abs(n), Abs(d))
             s == IF d < 0 THEN -1 ELSE 1
         IN  <<(s * n) \div g, (s * d) \div g>>

R(n) == <<n, 1>>
Q(n, d) == Norm(n, d)

RAdd(a, b) ==
    IF a[2] = 0 \/ b[2] = 0 THEN Norm(a[1] * b[2] + b[1] * a[2], 0)
    ELSE LET g == Gcd(a[2], b[2])
         IN  Norm(a[1] * (b[2] \div g) + b[1] * (a[2] \div g), (a[2] \div g) * b[2])
RNeg(a) == <<-a[1], a[2]>>
RSub(a, b) == RAdd(a, RNeg(b))
RMul(a, b) ==
    IF a[2] = 0 \/ b[2] = 0 THEN Norm(a[1] * b[1], 0)
    ELSE LET g1 == Gcd(Abs(a[1]), b[2])
             g2 == Gcd(Abs(b[1]), a[2])
         IN  Norm((a[1] \div g1) * (b[1] \div g2), (a[2] \div g2) * (b[2] \div g1))
RDiv(a, b) ==
    IF b[1] = 0 THEN Norm(a[1] * b[2], 0)
    ELSE RMul(a, <<b[2] * Sgn(b[1]), Abs(b[1])>>)
RAbs(a) == <<Abs(a[1]), a[2]>>

IsNan(a) == a[2] = 0 /\ a[1] = 0
IsInf(a) == a[2] = 0 /\ a[1] # 0
IsFinite(a) == a[2] # 0

\* sign of n1/d1 - n2/d2 for d1, d2 > 0, by continued fractions (no products)
RECURSIVE FracCmp(_, _, _, _)
FracCmp(n1, d1, n2, d2) ==
    LET q1 == n1 \div d1
        q2 == n2 \div d2
        r1 == n1 % d1
        r2 == n2 % d2
    IN  IF q1 # q2 THEN Sgn(q1 - q2)
        ELSE IF r1 = 0 \/ r2 = 0 THEN Sgn(r1 - r2)
        ELSE FracCmp(d2, r2, d1, r1)

\* a > b as a float comparison: FALSE whenever a NaN is involved
RGt(a, b) ==
    /\ ~IsNan(a) /\ ~IsNan(b)
    /\ IF a[2] = 0 /\ b[2] = 0 THEN a[1] > b[1]
       ELSE IF a[2] = 0 THEN a[1] > 0
       ELSE IF b[2] = 0 THEN b[1] < 0
       ELSE FracCmp(a[1], a[2], b[1], b[2]) = 1
RGe(a, b) == ~IsNan(a) /\ ~IsNan(b) /\ (a = b \/ RGt(a, b))
RLe(a, b) == RGe(b, a)
RLt(a, b) == RGt(b, a)

RMin(a, b) == IF IsNan(a) \/ IsNan(b) THEN <<0, 0>> ELSE IF RLe(a, b) THEN a ELSE b
RMax(a, b) == IF IsNan(a) \/ IsNan(b) THEN <<0, 0>> ELSE IF RGe(a, b) THEN a ELSE b

\* torch.max over the batch: NaN propagates
RECURSIVE MaxUpTo(_, _)
MaxUpTo(f, n) == IF n = 1 THEN f[1] ELSE RMax(MaxUpTo(f, n - 1), f[n])
BatchMax(f) == MaxUpTo(f, BatchSize)

-----------------------------------------------------------------------------
(* Program constants of NewtonSolve.forward *)
max_iter == 3
gtol == Q(1, 1000)
reuseRatio == Q(1, 5)

-----------------------------------------------------------------------------
(* Residual functions G handed to the solver.                               *)
(*   "lin"   : G(x, p) = p*x - b            (manufactured linear residual)  *)
(*   "recip" : G(x, p) = p - 1/x                                            *)
(*   "sqrtp" : G(x, p[, p2]) = x - sqrt(p) [- p2]                           *)
(*   "mol"   : MOL.forward, G(x, p, xt) with a one-store right-hand side    *)

ISqrt(n) == CHOOSE k \in 0..n : k * k = n
RSqrt(a) == <<ISqrt(a[1]), ISqrt(a[2])>>

\* torch.clamp(v, min=0) and its autograd derivative
Clamp0(v) == RMax(v, R(0))
DClamp0(v) == IF RGe(v, R(0)) THEN R(1) ELSE R(0)

\* autograd derivative of torch.min(a, b) with respect to a (ties share 1/2)
DMinFirst(a, b) == IF RLt(a, b) THEN R(1) ELSE IF a = b THEN Q(1, 2) ELSE R(0)

\* rhsFunc: the upper-zone store of HBV_function with a constant inflow;
\* the parameter pe is the baseflow rate K1
Rhs(g, xe, pe) ==
    LET suz == Clamp0(xe)
        perc == RMin(suz, g.PERC)
        q0 == RMul(g.K0, Clamp0(RSub(suz, g.UZL)))
        q1 == RMul(pe, suz)
    IN  RSub(RSub(RSub(g.inflow, perc), q0), q1)

DRhsDx(g, xe, pe) ==
    LET suz == Clamp0(xe)
        dS == DClamp0(xe)
        dperc == RMul(DMinFirst(suz, g.PERC), dS)
        dq0 == RMul(RMul(g.K0, DClamp0(RSub(suz, g.UZL))), dS)
        dq1 == RMul(pe, dS)
    IN  RNeg(RAdd(RAdd(dperc, dq0), dq1))

DRhsDp(g, xe, pe) == RNeg(Clamp0(xe))

\* MOL.forward: one step of the time discretisation as a residual
MOLForward(g, xe, pe, xte) ==
    IF g.mtd = 0
    THEN RSub(RDiv(RSub(xe, xte), g.dt), Rhs(g, xe, pe))
    ELSE RSub(RDiv(RSub(xe, xte), g.dt),
              RMul(RAdd(Rhs(g, xe, pe), Rhs(g, xte, pe)), Q(1, 2)))

P2Term(p2e) == IF p2e = None THEN R(0) ELSE p2e

\* G(x, p, [p2,] t, auxG) for one batch element
GVal(g, xe, pe, p2e) ==
    CASE g.kind = "lin"   -> RSub(RMul(pe, xe), g.b)
      [] g.kind = "recip" -> RSub(pe, RDiv(R(1), xe))
      [] g.kind = "sqrtp" -> RSub(RSub(xe, RSqrt(pe)), P2Term(p2e))
      [] g.kind = "mol"   -> MOLForward(g, xe, pe, p2e)

\* batchJacobian(gg, x): dG/dx for one batch element (state dimension 1)
JacX(g, xe, pe, p2e) ==
    CASE g.kind = "lin"   -> pe
      [] g.kind = "recip" -> RDiv(R(1), RMul(xe, xe))
      [] g.kind = "sqrtp" -> R(1)
      [] g.kind = "mol"   ->
            IF g.mtd = 0
            THEN RSub(RDiv(R(1), g.dt), DRhsDx(g, xe, pe))
            ELSE RSub(RDiv(R(1), g.dt), RMul(DRhsDx(g, xe, pe), Q(1, 2)))

\* batchJacobian(gg, p): dG/dp for one batch element
JacP(g, xe, pe, p2e) ==
    CASE g.kind = "lin"   -> xe
      [] g.kind = "recip" -> R(1)
      [] g.kind = "sqrtp" -> RNeg(RDiv(R(1), RMul(R(2), RSqrt(pe))))
      [] g.kind = "mol"   ->
            IF g.mtd = 0
            THEN RNeg(DRhsDp(g, xe, pe))
            ELSE RNeg(RMul(RAdd(DRhsDp(g, xe, pe), DRhsDp(g, p2e, pe)), Q(1, 2)))

\* batchJacobian(gg, p2): dG/dp2 for one batch element
JacP2(g, xe, pe, p2e) ==
    CASE g.kind = "sqrtp" -> R(-1)
      [] g.kind = "mol"   ->
            IF g.mtd = 0
            THEN RNeg(RDiv(R(1), g.dt))
            ELSE RSub(RNeg(RDiv(R(1), g.dt)), RMul(DRhsDx(g, p2e, pe), Q(1, 2)))
      [] OTHER -> R(0)

P2At(pp2, e) == IF pp2 = None THEN None ELSE pp2[e]

GAll(g, xx, pp, pp2) == [e \in Batch |-> GVal(g, xx[e], pp[e], P2At(pp2, e))]
JacXAll(g, xx, pp, pp2) == [e \in Batch |-> JacX(g, xx[e], pp[e], P2At(pp2, e))]
JacPAll(g, xx, pp, pp2) == [e \in Batch |-> JacP(g, xx[e], pp[e], P2At(pp2, e))]
JacP2All(g, xx, pp, pp2) == [e \in Batch |-> JacP2(g, xx[e], pp[e], P2At(pp2, e))]

\* torch.isnan(J).any() or torch.isinf(J).any()
AnyNonFinite(J) == \E e \in Batch : ~IsFinite(J[e])

\* torch.linalg.norm(gg, inf, dim=[1])
ResNorm(g) == [e \in Batch |-> RAbs(g[e])]

-----------------------------------------------------------------------------
(* NewtonSolve.forward *)

\* the while condition of the iteration loop
LoopCond(rn, k) == RGt(BatchMax(rn), gtol) /\ k <= max_iter

\* torch.max(resnorm/resnorm0) > 0.2: recompute the state Jacobian
Recompute(rn, rn0) == RGt(BatchMax([e \in Batch |-> RDiv(rn[e], rn0[e])]), reuseRatio)

\* (mutant) the update with the wrong sign, x = x + dx
NewtonUpdatePlus(xx, J, g) == [e \in Batch |-> RAdd(xx[e], RDiv(g[e], J[e]))]

\* dx = matrixSolve(dGdx, gg); x = x - dx
NewtonUpdate(xx, J, g) == [e \in Batch |-> RSub(xx[e], RDiv(g[e], J[e]))]

\* torch.linalg.solve fails on a singular matrix
Singular(J) == \E e \in Batch : J[e] = R(0)

\* the non-finite test of the parameter Jacobians sits in the p2 branch only
ParamJacChecked(pp2) == pp2 # None

\* (mutant) the final iterate retained next to the Jacobians
SaveWithIterate(jp, jp2, jx, xx) == <<jp, jp2, jx, xx>>

\* ctx.save_for_backward(dGdp, dGdp2, dGdx)
SaveForBackward(jp, jp2, jx, xx) == <<jp, jp2, jx>>

\* entry of forward up to the loop
Enter(pp, pp2, x0) ==
    LET xs == IF x0 = None /\ pp2 # None THEN pp2 ELSE x0
        g0 == GAll(G, xs, pp, pp2)
        J  == JacXAll(G, xs, pp, pp2)
        bad == AnyNonFinite(J)
    IN  /\ p' = pp
        /\ p2' = pp2
        /\ x' = xs
        /\ i' = 0
        /\ gg' = g0
        /\ dGdx' = J
        /\ resnorm' = IF bad THEN resnorm ELSE ResNorm(g0)
        /\ resnorm0' = IF bad THEN resnorm0
                       ELSE [e \in Batch |-> RMul(R(100), ResNorm(g0)[e])]
        /\ saved' = <<>>
        /\ pc' = IF bad THEN "raised" ELSE "loop"

\* a direct call NewtonSolve.apply(p, p2, t, G, x0, ...)
DirectCall ==
    /\ pc = "idle"
    /\ G.kind # "mol"
    /\ Enter(p, p2, x)
    /\ UNCHANGED <<G, evalMode, pDyn, t, xt, ySolution, ctxs, bt, dLdx, grads>>
    /\ UNCHANGED <<hbvVars, maskVars, fwdVars, rhsVars, mergeVars>>

\* one pass through the loop body
LoopIter ==
    /\ pc = "loop"
    /\ LoopCond(resnorm, i)
    /\ LET re  == Recompute(resnorm, resnorm0)
           g1  == IF re THEN GAll(G, x, p, p2) ELSE gg
           J   == IF re THEN JacXAll(G, x, p, p2) ELSE dGdx
           bad == (re /\ AnyNonFinite(J)) \/ Singular(J)
           xn  == NewtonUpdate(x, J, g1)
           g2  == GAll(G, xn, p, p2)
       IN  /\ i' = i + 1
           /\ dGdx' = J
           /\ x' = IF bad THEN x ELSE xn
           /\ gg' = IF bad THEN g1 ELSE g2
           /\ resnorm0' = IF bad THEN resnorm0 ELSE resnorm
           /\ resnorm' = IF bad THEN resnorm ELSE ResNorm(g2)
           /\ pc' = IF bad THEN "raised" ELSE "loop"
    /\ UNCHANGED <<G, evalMode, p, p2, pDyn, saved, t, xt, ySolution, ctxs,
                   bt, dLdx, grads>>
    /\ UNCHANGED <<hbvVars, maskVars, fwdVars, rhsVars, mergeVars>>

\* after the loop: parameter Jacobians, save, return
LoopExit ==
    /\ pc = "loop"
    /\ ~LoopCond(resnorm, i)
    /\ LET jp  == JacPAll(G, x, p, p2)
           jp2 == IF p2 = None THEN None ELSE JacP2All(G, x, p, p2)
           bad == /\ ~evalMode
                  /\ ParamJacChecked(p2)
                  /\ (AnyNonFinite(jp) \/ AnyNonFinite(jp2))
           sv  == SaveForBackward(jp, jp2, dGdx, x)
       IN  /\ saved' = IF evalMode \/ bad THEN saved ELSE sv
           /\ ctxs' = IF bad THEN ctxs
                      ELSE Append(ctxs, IF evalMode THEN <<>> ELSE sv)
           /\ pc' = IF bad THEN "raised" ELSE "done"
    /\ UNCHANGED <<G, evalMode, p, p2, pDyn, x, i, gg, dGdx, resnorm, resnorm0,
                   t, xt, ySolution, bt, dLdx, grads>>
    /\ UNCHANGED <<hbvVars, maskVars, fwdVars, rhsVars, mergeVars>>

-----------------------------------------------------------------------------
(* MOL.nsteps_pDyn *)

rho == Len(pDyn)

\* (mutant) every step solved with the first parameter slice
MolSolveFirstSlice ==
    /\ pc = "idle"
    /\ G.kind = "mol"
    /\ t < rho
    /\ Enter(pDyn[1], xt, None)
    /\ UNCHANGED <<G, evalMode, pDyn, t, xt, ySolution, ctxs, bt, dLdx, grads>>
    /\ UNCHANGED <<hbvVars, maskVars, fwdVars, rhsVars, mergeVars>>

\* loop head: p = pDyn[t]; x = self.solveAdj(p, xt, t, self.forward, None, ...)
MolSolve ==
    /\ pc = "idle"
    /\ G.kind = "mol"
    /\ t < rho
    /\ Enter(pDyn[t + 1], xt, None)
    /\ UNCHANGED <<G, evalMode, pDyn, t, xt, ySolution, ctxs, bt, dLdx, grads>>
    /\ UNCHANGED <<hbvVars, maskVars, fwdVars, rhsVars, mergeVars>>

\* (mutant) the result is stored but the next step restarts from the old state
MolStoreKeepsPrevious ==
    /\ pc = "done"
    /\ G.kind = "mol"
    /\ ySolution' = [ySolution EXCEPT ![t + 1] = x]
    /\ xt' = xt
    /\ t' = t + 1
    /\ pc' = IF t + 1 < rho THEN "idle" ELSE "finished"
    /\ UNCHANGED <<G, evalMode, p, p2, pDyn, x, i, gg, dGdx, resnorm, resnorm0,
                   saved, ctxs, bt, dLdx, grads>>
    /\ UNCHANGED <<hbvVars, maskVars, fwdVars, rhsVars, mergeVars>>

\* ySolution[t,:,:] = x; xt = x
MolStore ==
    /\ pc = "done"
    /\ G.kind = "mol"
    /\ ySolution' = [ySolution EXCEPT ![t + 1] = x]
    /\ xt' = x
    /\ t' = t + 1
    /\ pc' = IF t + 1 < rho THEN "idle" ELSE "finished"
    /\ UNCHANGED <<G, evalMode, p, p2, pDyn, x, i, gg, dGdx, resnorm, resnorm0,
                   saved, ctxs, bt, dLdx, grads>>
    /\ UNCHANGED <<hbvVars, maskVars, fwdVars, rhsVars, mergeVars>>

-----------------------------------------------------------------------------
(* NewtonSolve.backward *)

\* upstream gradients on the returned state: element e receives c * e
GSet == {[e \in Batch |-> R(c * e)] : c \in {1, -2}}

\* (mutant) no gradient for the second parameter input
BackwardNoP2(sv, dl) ==
    LET lambTneg == [e \in Batch |-> RDiv(dl[e], sv[3][e])]
        dLdp == [e \in Batch |-> RNeg(RMul(lambTneg[e], sv[1][e]))]
    IN  <<dLdp, None, None, None, None, None, None, None, None>>

\* (mutant) the adjoint product without its minus sign
BackwardNoNeg(sv, dl) ==
    LET lambTneg == [e \in Batch |-> RDiv(dl[e], sv[3][e])]
        dLdp == [e \in Batch |-> RMul(lambTneg[e], sv[1][e])]
        dLdp2 == IF sv[2] = None THEN None
                 ELSE [e \in Batch |-> RMul(lambTneg[e], sv[2][e])]
    IN  <<dLdp, dLdp2, None, None, None, None, None, None, None>>

\* NewtonSolve.backward
Backward(sv, dl) ==
    LET jp  == sv[1]
        jp2 == sv[2]
        jx  == sv[3]
        lambTneg == [e \in Batch |-> RDiv(dl[e], jx[e])]
        dLdp == [e \in Batch |-> RNeg(RMul(lambTneg[e], jp[e]))]
        dLdp2 == IF jp2 = None THEN None
                 ELSE [e \in Batch |-> RNeg(RMul(lambTneg[e], jp2[e]))]
    IN  <<dLdp, dLdp2, None, None, None, None, None, None, None>>

\* the loss gradient arrives on the last returned state
BackwardStart ==
    /\ ~evalMode
    /\ (pc = "done" /\ G.kind # "mol") \/ pc = "finished"
    /\ \E g \in GSet : dLdx' = g
    /\ bt' = Len(ctxs)
    /\ pc' = "backward"
    /\ UNCHANGED <<G, evalMode, p, p2, pDyn, x, i, gg, dGdx, resnorm, resnorm0,
                   saved, t, xt, ySolution, ctxs, grads>>
    /\ UNCHANGED <<hbvVars, maskVars, fwdVars, rhsVars, mergeVars>>

\* autograd calls backward of the solves last to first; the gradient returned
\* for p2 (= xt) is the upstream gradient of the preceding solve
BackwardCall ==
    /\ pc = "backward"
    /\ bt >= 1
    /\ LET r == Backward(ctxs[bt], dLdx)
       IN  /\ grads' = r
           /\ dLdx' = IF bt > 1 /\ r[2] # None THEN r[2] ELSE dLdx
    /\ bt' = bt - 1
    /\ pc' = IF bt = 1 THEN "backdone" ELSE "backward"
    /\ UNCHANGED <<G, evalMode, p, p2, pDyn, x, i, gg, dGdx, resnorm, resnorm0,
                   saved, t, xt, ySolution, ctxs>>
    /\ UNCHANGED <<hbvVars, maskVars, fwdVars, rhsVars, mergeVars>>

-----------------------------------------------------------------------------
(* Inputs of the solver *)

GRec(kind, b, mtd, inflow) ==
    [kind |-> kind, b |-> b, mtd |-> mtd, dt |-> R(1), inflow |-> inflow,
     PERC |-> R(1), UZL |-> R(10), K0 |-> Q(1, 4)]

LinA == {R(1), R(2), R(-2)}
LinB == {R(1), R(3)}
LinX0 == {R(0), R(1), Q(2001, 2000)}
RecipP == {R(1)}
RecipX0 == {R(0), Q(1, 2), R(1), R(2)}
SqrtP == {R(0), R(1), R(4)}
SqrtX0 == {R(0), R(3)}
SqrtP2 == {R(0), R(1)}
MolP == {Q(1, 2), Q(1, 4)}
MolX0 == {R(0), R(12)}
MolInflow == {R(0), R(3)}

\* the parameter series: static (the same slice at every step) or dynamic
\* (the two values of MolP alternate in time)
MolOther(v) == CHOOSE w \in MolP : w # v
MolSeries(n, base, dyn) ==
    [k \in 1..n |-> [e \in Batch |->
        IF dyn /\ k % 2 = 0 THEN MolOther(base[e]) ELSE base[e]]]

Zeros == [e \in Batch |-> R(0)]

InitCommon ==
    /\ evalMode \in BOOLEAN
    /\ i = 0
    /\ gg = Zeros
    /\ dGdx = Zeros
    /\ resnorm = Zeros
    /\ resnorm0 = Zeros
    /\ saved = <<>>
    /\ pc = "idle"
    /\ t = 0
    /\ ctxs = <<>>
    /\ bt = 0
    /\ dLdx = Zeros
    /\ grads = <<>>

InitDirect ==
    /\ \/ /\ G \in {GRec("lin", b, 0, R(0)) : b \in LinB}
          /\ p \in [Batch -> LinA]
          /\ p2 = None
          /\ x \in [Batch -> LinX0]
       \/ /\ G = GRec("recip", R(0), 0, R(0))
          /\ p \in [Batch -> RecipP]
          /\ p2 = None
          /\ x \in [Batch -> RecipX0]
       \/ /\ G = GRec("sqrtp", R(0), 0, R(0))
          /\ p \in [Batch -> SqrtP]
          /\ \/ p2 = None /\ x \in [Batch -> SqrtX0]
             \/ p2 \in [Batch -> SqrtP2] /\ x = None
    /\ pDyn = <<>>
    /\ xt = Zeros
    /\ ySolution = <<>>

InitMol ==
    /\ G \in {GRec("mol", R(0), 0, q) : q \in MolInflow} \cup {GRec("mol", R(0), 1, R(0))}
    /\ \E n \in 1..MaxRho, base \in [Batch -> MolP], dyn \in BOOLEAN :
          pDyn = MolSeries(n, base, dyn)
    /\ xt \in [Batch -> MolX0]
    /\ ySolution = [k \in 1..Len(pDyn) |-> IF k = 1 THEN xt ELSE Zeros]
    /\ p = Zeros
    /\ p2 = None
    /\ x = Zeros

\* the explicit stepper is not running
HbvIdle ==
    /\ SNOWPACK = <<>>
    /\ MELTWATER = <<>>
    /\ SM = <<>>
    /\ SUZ = <<>>
    /\ SLZ = <<>>
    /\ param_dict = <<>>
    /\ forcing = <<>>
    /\ step = 0
    /\ flux = <<>>

\* no parameters are being unpacked
MaskIdle ==
    /\ model = "none"
    /\ dy_params = {}
    /\ dy_drop = <<0, 1>>
    /\ static_idx = -1
    /\ name_idx = 0
    /\ drmask = <<>>
    /\ parameter_dict = <<>>
    /\ warm_up = 0
    /\ warm_up_states = FALSE
    /\ phy_params_warmup = <<>>
    /\ phase = "none"
    /\ computed = 0

\* the merge of realizations is not followed
MergeIdle ==
    /\ nmul = 1
    /\ n_grid = 1
    /\ n_steps = 1
    /\ parameters = <<>>
    /\ x_phy = <<>>
    /\ phy_params = <<>>
    /\ x_warmup = <<>>
    /\ xTrain = <<>>
    /\ simulation = <<>>
    /\ mpc = "none"

\* HBV_function.forward is not followed
RhsIdle ==
    /\ y = <<>>
    /\ theta = <<>>
    /\ climate_in = <<>>
    /\ returnFlux = FALSE
    /\ parameter_bounds = <<>>
    /\ rhs_pc = "none"
    /\ rhs_out = <<>>

\* no forward evaluation is followed
FwdIdle ==
    /\ config_given = FALSE
    /\ routing = FALSE
    /\ comprout = FALSE
    /\ initialize = FALSE
    /\ bounds_keys = <<>>
    /\ rout_params_name = <<>>
    /\ locals = <<>>
    /\ out_dict = <<>>
    /\ trunc_idx = 0
    /\ fpc = "none"
    /\ error = "none"

\* no solve is running
NewtonIdle ==
    /\ InitCommon
    /\ evalMode = TRUE
    /\ G = GRec("lin", R(0), 0, R(0))
    /\ p = Zeros
    /\ p2 = None
    /\ x = Zeros
    /\ pDyn = <<>>
    /\ xt = Zeros
    /\ ySolution = <<>>

InitNewton == InitCommon /\ (InitDirect \/ InitMol) /\ HbvIdle /\ MaskIdle /\ FwdIdle /\ RhsIdle /\ MergeIdle

NextNewton ==
    \/ DirectCall
    \/ LoopIter
    \/ LoopExit
    \/ MolSolve
    \/ MolStore
    \/ BackwardStart
    \/ BackwardCall

SpecNewton == InitNewton /\ [][NextNewton]_vars

-----------------------------------------------------------------------------
(* HBVCapillary.forward: the explicit daily stepper.  Water depths are       *)
(* integers in units of 1e-6 mm, fractions are integers in millionths,       *)
(* temperatures are in tenths of a degree; products round down.  One basin   *)
(* is followed: every operation of the time loop is elementwise over         *)
(* [n_grid, nmul].                                                           *)

Muls == 1..NMul

mm == 1000000          \* one millimetre of water
One == 1000000         \* the fraction 1.0
Kilo == 1000           \* the square root of One
nearzero == 10         \* self.nearzero = 1e-5
InitialStorage == 1000 \* zeros + 0.001

Lower(a, b) == IF a <= b THEN a ELSE b
Higher(a, b) == IF a >= b THEN a ELSE b

\* rate * amount, for a rate <<num, den>>
Scale(v, r) == (v * r[1]) \div r[2]
\* a / b as a fraction, for depths a and b
Ratio(a, b) == a \div (b \div One)
\* amount * fraction
Times(v, f) == (v \div Kilo) * (f \div Kilo)
RECURSIVE RootIn(_, _, _)
\* the largest k in lo..hi with k * k <= f, by bisection
RootIn(f, lo, hi) ==
    IF lo = hi THEN lo
    ELSE LET mid == (lo + hi + 1) \div 2
         IN  IF mid * mid <= f THEN RootIn(f, mid, hi) ELSE RootIn(f, lo, mid - 1)
Root(f) == RootIn(f, 0, 3 * Kilo)
\* f ** e for the exponents 1/2, 1 and 2
Pow(f, e) ==
    IF e = <<1, 2>> THEN Root(f) * Kilo
    ELSE IF e = <<2, 1>> THEN (f \div Kilo) * (f \div Kilo)
    ELSE f

\* torch.clamp(v, min=self.nearzero)
FloorOff(v) == v
Floor(v) == Higher(v, nearzero)

\* lines 241-265: precipitation split, melt, refreezing, release to the soil
SnowRoutine(snowpack, meltwater, q, f) ==
    LET RAIN == IF f.T >= q.parTT THEN f.P ELSE 0
        SNOW == IF f.T < q.parTT THEN f.P ELSE 0
        sp1  == snowpack + SNOW
        melt == Lower(Higher(Scale((f.T - q.parTT) * (mm \div 10), q.parCFMAX), 0), sp1)
        mw1  == meltwater + melt
        sp2  == sp1 - melt
        refreezing ==
            Lower(Higher(Scale(Scale((q.parTT - f.T) * (mm \div 10), q.parCFMAX),
                               q.parCFR), 0), mw1)
        sp3  == sp2 + refreezing
        mw2  == mw1 - refreezing
        tosoil == Higher(mw2 - Scale(sp3, q.parCWH), 0)
    IN  [SNOWPACK |-> sp3, MELTWATER |-> mw2 - tosoil, RAIN |-> RAIN,
         tosoil |-> tosoil]

\* lines 268-284: recharge, excess, actual evapotranspiration
SoilRoutine(sm, RAIN, tosoil, q, f) ==
    LET soil_wetness == Lower(Higher(Pow(Ratio(sm, q.parFC), q.parBETA), 0), One)
        recharge == Times(RAIN + tosoil, soil_wetness)
        sm1 == sm + RAIN + tosoil - recharge
        excess == Higher(sm1 - q.parFC, 0)
        sm2 == sm1 - excess
        evapfactor ==
            Lower(Higher(Pow(Ratio(sm2, Scale(q.parFC, q.parLP)), q.parBETAET), 0), One)
        ETact == Lower(sm2, Times(f.PET, evapfactor))
    IN  [SM |-> Floor(sm2 - ETact), recharge |-> recharge, excess |-> excess,
         evapfactor |-> evapfactor, ETact |-> ETact]

\* lines 287-290: capillary rise from the lower zone
CapillaryRise(sm, slz, q) ==
    LET capillary ==
            Lower(slz, Times(Scale(slz, q.parC),
                             One - Lower(Ratio(sm, q.parFC), One)))
    IN  [SM |-> Floor(sm + capillary), SLZ |-> Floor(slz - capillary),
         capillary |-> capillary]

\* lines 293-302 with Q1 left in the upper zone
GroundwaterKeepsQ1(suz, slz, recharge, excess, q) ==
    LET suz1 == suz + recharge + excess
        PERC == Lower(suz1, q.parPERC)
        suz2 == suz1 - PERC
        Q0   == Scale(Higher(suz2 - q.parUZL, 0), q.parK0)
        suz3 == suz2 - Q0
        Q1   == Scale(suz3, q.parK1)
        slz1 == slz + PERC
        Q2   == Scale(slz1, q.parK2)
    IN  [SUZ |-> suz3, SLZ |-> slz1 - Q2, PERC |-> PERC,
         Q0 |-> Q0, Q1 |-> Q1, Q2 |-> Q2]

\* lines 293-302: percolation and the three outflows
Groundwater(suz, slz, recharge, excess, q) ==
    LET suz1 == suz + recharge + excess
        PERC == Lower(suz1, q.parPERC)
        suz2 == suz1 - PERC
        Q0   == Scale(Higher(suz2 - q.parUZL, 0), q.parK0)
        suz3 == suz2 - Q0
        Q1   == Scale(suz3, q.parK1)
        slz1 == slz + PERC
        Q2   == Scale(slz1, q.parK2)
    IN  [SUZ |-> suz3 - Q1, SLZ |-> slz1 - Q2, PERC |-> PERC,
         Q0 |-> Q0, Q1 |-> Q1, Q2 |-> Q2]

\* the forcing of day k (0-based) of a series <<first day, later days>>
Day(series, k) == IF k = 0 THEN series[1] ELSE series[2]

\* one pass through the body of the time loop, for every realization
TimeStep ==
    /\ step < MaxSteps
    /\ LET f == Day(forcing, step)
           snow == [m \in Muls |->
                       SnowRoutine(SNOWPACK[m], MELTWATER[m], param_dict[m], f)]
           soil == [m \in Muls |->
                       SoilRoutine(SM[m], snow[m].RAIN, snow[m].tosoil,
                                   param_dict[m], f)]
           cap  == [m \in Muls |->
                       CapillaryRise(soil[m].SM, SLZ[m], param_dict[m])]
           gw   == [m \in Muls |->
                       Groundwater(SUZ[m], cap[m].SLZ, soil[m].recharge,
                                   soil[m].excess, param_dict[m])]
       IN  /\ SNOWPACK' = [m \in Muls |-> snow[m].SNOWPACK]
           /\ MELTWATER' = [m \in Muls |-> snow[m].MELTWATER]
           /\ SM' = [m \in Muls |-> cap[m].SM]
           /\ SUZ' = [m \in Muls |-> gw[m].SUZ]
           /\ SLZ' = [m \in Muls |-> gw[m].SLZ]
           /\ flux' = [m \in Muls |->
                 [PRECIP |-> f.P, Q0 |-> gw[m].Q0, Q1 |-> gw[m].Q1,
                  Q2 |-> gw[m].Q2, AET |-> soil[m].ETact,
                  capillary |-> cap[m].capillary, PERC |-> gw[m].PERC,
                  recharge |-> soil[m].recharge, excs |-> soil[m].excess,
                  evapfactor |-> soil[m].evapfactor, tosoil |-> snow[m].tosoil]]
    /\ step' = step + 1
    /\ UNCHANGED <<param_dict, forcing>>
    /\ UNCHANGED <<newtonVars, maskVars, fwdVars, rhsVars, mergeVars>>

(* Inputs of the stepper *)

Forcing(P, T, PET) == [P |-> P, T |-> T, PET |-> PET]
ForcingSet ==
    {Forcing(10 * mm, 50, 0), Forcing(0, 50, 0), Forcing(0, 50, 2 * mm),
     Forcing(10 * mm, -50, 0)}

\* parameter sets inside self.parameter_bounds
ParDrain ==
    [parBETA |-> <<1, 1>>, parFC |-> 50 * mm, parK0 |-> <<1, 4>>,
     parK1 |-> <<1, 2>>, parK2 |-> <<1, 5>>, parLP |-> <<1, 5>>,
     parPERC |-> 0, parUZL |-> 0, parTT |-> 0, parCFMAX |-> <<2, 1>>,
     parCFR |-> <<0, 1>>, parCWH |-> <<0, 1>>, parBETAET |-> <<1, 2>>,
     parC |-> <<0, 1>>]
ParMid ==
    [parBETA |-> <<2, 1>>, parFC |-> 50 * mm, parK0 |-> <<1, 4>>,
     parK1 |-> <<1, 10>>, parK2 |-> <<1, 10>>, parLP |-> <<1, 1>>,
     parPERC |-> 1 * mm, parUZL |-> 10 * mm, parTT |-> -25,
     parCFMAX |-> <<2, 1>>, parCFR |-> <<1, 20>>, parCWH |-> <<1, 10>>,
     parBETAET |-> <<1, 1>>, parC |-> <<1, 2>>]
ParWet ==
    [parBETA |-> <<1, 1>>, parFC |-> 50 * mm, parK0 |-> <<1, 4>>,
     parK1 |-> <<1, 2>>, parK2 |-> <<1, 5>>, parLP |-> <<1, 5>>,
     parPERC |-> 10 * mm, parUZL |-> 0, parTT |-> 25, parCFMAX |-> <<1, 2>>,
     parCFR |-> <<1, 10>>, parCWH |-> <<1, 5>>, parBETAET |-> <<2, 1>>,
     parC |-> <<1, 1>>]
ParSets == {ParDrain, ParMid, ParWet}

NoFlux == [m \in Muls |-> [PRECIP |-> 0, Q0 |-> 0, Q1 |-> 0, Q2 |-> 0,
                           AET |-> 0, capillary |-> 0, PERC |-> 0,
                           recharge |-> 0, excs |-> 0, evapfactor |-> 0,
                           tosoil |-> 0]]

\* the state before the first day, without warm-up
InitStorages ==
    /\ SNOWPACK = [m \in Muls |-> InitialStorage]
    /\ MELTWATER = [m \in Muls |-> InitialStorage]
    /\ SM = [m \in Muls |-> InitialStorage]
    /\ SUZ = [m \in Muls |-> InitialStorage]
    /\ SLZ = [m \in Muls |-> InitialStorage]
    /\ step = 0
    /\ flux = NoFlux

InitExplicit ==
    /\ InitStorages
    /\ param_dict \in [Muls -> ParSets]
    /\ forcing \in ForcingSet \X ForcingSet
    /\ NewtonIdle
    /\ MaskIdle
    /\ FwdIdle
    /\ RhsIdle
    /\ MergeIdle

NextExplicit == TimeStep

SpecExplicit == InitExplicit /\ [][NextExplicit]_vars

-----------------------------------------------------------------------------
(* Dynamic parameters and their drop mask: HBVCapillary.unpack_parameters    *)
(* and HBV_adj.make_phy_parameters.  The sigmoid output phy_params[t, b, i,  *)
(* m] is kept as the tag <<t, b, m>> of the entry it came from.              *)

Basins == 1..NGrid
Steps == 1..NSteps
bsnew == NGrid * NMul
Merged == 1..bsnew

\* the parameters followed, in the order of self.parameter_bounds
ParamNames == <<"parBETA", "parK1">>
NameSet == {ParamNames[n] : n \in 1..Len(ParamNames)}
\* the configured dynamic names may hold a name that is not a parameter
DySets == SUBSET (NameSet \cup {"parXX"})
DropSet == {<<0, 1>>, <<1, 2>>, <<1, 1>>}

\* a Python index into an axis of length n, as a 1-based position
PyIndex(idx, n) == IF idx < 0 THEN n + idx + 1 ELSE idx + 1

\* permute([0, 3, 1, 2]) and reshape(n_steps, bsnew, ...): realization-major
MergedIndex(b, m) == (m - 1) * NGrid + b
BasinOf(e) == ((e - 1) % NGrid) + 1
MulOf(e) == ((e - 1) \div NGrid) + 1

\* torch.bernoulli(pmat) for pmat = ones(shape) * dy_drop
Bernoulli(shape, pr) ==
    {f \in [shape -> {0, 1}] :
        \A e \in shape : /\ pr[1] = 0 => f[e] = 0
                         /\ pr[1] = pr[2] => f[e] = 1}

\* dynamic * (1 - drmask) + static * drmask, for a mask entry 0 or 1
Combine(dyn, sta, bit) == IF bit = 1 THEN sta ELSE dyn

\* HBVCapillary.forward: the warm-up run of init_model (dy_params = [])
WarmUpStates ==
    /\ model = "HBV_1_1p"
    /\ phase = "warmup"
    /\ computed' = warm_up
    /\ phase' = "unpack"
    /\ UNCHANGED <<model, dy_params, dy_drop, static_idx, name_idx, drmask,
                   parameter_dict, warm_up, warm_up_states, phy_params_warmup>>
    /\ UNCHANGED <<newtonVars, hbvVars, fwdVars, rhsVars, mergeVars>>

\* one pass of the parameter loop of HBVCapillary.unpack_parameters
UnpackParameter ==
    /\ model = "HBV_1_1p"
    /\ phase = "unpack"
    /\ name_idx < Len(ParamNames)
    /\ LET name == ParamNames[name_idx + 1]
           row  == PyIndex(static_idx, NSteps)
           param == [b \in Basins |-> [m \in Muls |-> <<row, b, m>>]]
       IN  IF name \in dy_params
           THEN \E mask \in Bernoulli(Basins, dy_drop) :
                   /\ drmask' = (name :> mask) @@ drmask
                   /\ parameter_dict' = (name :>
                        [s \in Steps |-> [b \in Basins |-> [m \in Muls |->
                            Combine(<<s, b, m>>, param[b][m], mask[b])]]])
                        @@ parameter_dict
           ELSE /\ drmask' = drmask
                /\ parameter_dict' = (name :> param) @@ parameter_dict
    /\ name_idx' = name_idx + 1
    /\ UNCHANGED <<model, dy_params, dy_drop, static_idx, warm_up, warm_up_states,
                   phy_params_warmup, phase, computed>>
    /\ UNCHANGED <<newtonVars, hbvVars, fwdVars, rhsVars, mergeVars>>

\* the first pass of the time loop of HBVCapillary.forward reads
\* full_param_dict[key] for every configured dynamic name
EnterTimeLoop ==
    /\ model = "HBV_1_1p"
    /\ phase = "unpack"
    /\ name_idx = Len(ParamNames)
    /\ phase' = IF \E key \in dy_params : key \notin DOMAIN parameter_dict
                THEN "KeyError" ELSE "stepping"
    /\ UNCHANGED <<model, dy_params, dy_drop, static_idx, name_idx, drmask,
                   parameter_dict, warm_up, warm_up_states, phy_params_warmup,
                   computed>>
    /\ UNCHANGED <<newtonVars, hbvVars, fwdVars, rhsVars, mergeVars>>

\* the steps of the series phy_params[self.warm_up:], as positions of the slice
RunSteps == 1..(NSteps - warm_up)

\* parstaFull of a slice whose last row is row last of the series
ParStaFull(n, last) ==
    [k \in 1..n |-> [e \in Merged |-> <<last, BasinOf(e), MulOf(e)>>]]

\* HBV_adj.forward: make_phy_parameters(phy_params[:warm_up], names, []) and
\* the warm-up integration
MakeWarmup ==
    /\ model = "HBV_adj"
    /\ phase = "warmup"
    /\ phy_params_warmup' = [n \in NameSet |-> ParStaFull(warm_up, warm_up)]
    /\ computed' = warm_up
    /\ phase' = "unpack"
    /\ UNCHANGED <<model, dy_params, dy_drop, static_idx, name_idx, drmask,
                   parameter_dict, warm_up, warm_up_states>>
    /\ UNCHANGED <<newtonVars, hbvVars, fwdVars, rhsVars, mergeVars>>

\* HBV_adj.make_phy_parameters with an empty dy_list: parstaFull
MakeStatic ==
    /\ model = "HBV_adj"
    /\ phase = "unpack"
    /\ dy_params = {}
    /\ name_idx = 0
    /\ parameter_dict' = [n \in NameSet |-> ParStaFull(NSteps - warm_up, NSteps)]
    /\ name_idx' = Len(ParamNames)
    /\ UNCHANGED <<model, dy_params, dy_drop, static_idx, drmask, warm_up,
                   warm_up_states, phy_params_warmup, phase, computed>>
    /\ UNCHANGED <<newtonVars, hbvVars, fwdVars, rhsVars, mergeVars>>

\* one pass of the name loop of HBV_adj.make_phy_parameters
MakePhyParameter ==
    /\ model = "HBV_adj"
    /\ phase = "unpack"
    /\ dy_params # {}
    /\ name_idx < Len(ParamNames)
    /\ LET name == ParamNames[name_idx + 1]
           staPar == ParStaFull(NSteps - warm_up, NSteps)
           dynPar == [k \in RunSteps |-> [e \in Merged |->
                         <<warm_up + k, BasinOf(e), MulOf(e)>>]]
       IN  IF name \in dy_params
           THEN \E mask \in Bernoulli(Merged, dy_drop) :
                   /\ drmask' = (name :> mask) @@ drmask
                   /\ parameter_dict' = (name :>
                        [k \in RunSteps |-> [e \in Merged |->
                            Combine(dynPar[k][e], staPar[k][e], mask[e])]])
                        @@ parameter_dict
           ELSE /\ drmask' = drmask
                /\ parameter_dict' = (name :> staPar) @@ parameter_dict
    /\ name_idx' = name_idx + 1
    /\ UNCHANGED <<model, dy_params, dy_drop, static_idx, warm_up, warm_up_states,
                   phy_params_warmup, phase, computed>>
    /\ UNCHANGED <<newtonVars, hbvVars, fwdVars, rhsVars, mergeVars>>

\* HBV_adj.forward goes on to the integration of the run
StartRun ==
    /\ model = "HBV_adj"
    /\ phase = "unpack"
    /\ name_idx = Len(ParamNames)
    /\ phase' = "stepping"
    /\ UNCHANGED <<model, dy_params, dy_drop, static_idx, name_idx, drmask,
                   parameter_dict, warm_up, warm_up_states, phy_params_warmup,
                   computed>>
    /\ UNCHANGED <<newtonVars, hbvVars, fwdVars, rhsVars, mergeVars>>

InitMask ==
    /\ model \in {"HBV_1_1p", "HBV_adj"}
    /\ dy_params \in DySets
    /\ dy_drop \in DropSet
    /\ static_idx \in {-1, 0}
    /\ model = "HBV_adj" => static_idx = -1
    /\ warm_up \in 0..(NSteps - 1)
    /\ warm_up_states \in BOOLEAN
    /\ model = "HBV_adj" => warm_up_states = FALSE
    /\ phase = IF warm_up > 0 /\ (model = "HBV_adj" \/ warm_up_states)
               THEN "warmup" ELSE "unpack"
    /\ phy_params_warmup = <<>>
    /\ computed = 0
    /\ name_idx = 0
    /\ drmask = <<>>
    /\ parameter_dict = <<>>
    /\ NewtonIdle
    /\ HbvIdle
    /\ FwdIdle
    /\ RhsIdle
    /\ MergeIdle

NextMask ==
    \/ WarmUpStates
    \/ UnpackParameter
    \/ EnterTimeLoop
    \/ MakeWarmup
    \/ MakeStatic
    \/ MakePhyParameter
    \/ StartRun

SpecMask == InitMask /\ [][NextMask]_vars

-----------------------------------------------------------------------------
(* The forward evaluation around the time loop: construction, unpacking,     *)
(* averaging, routing and the returned dictionary of both models.  A tensor  *)
(* is kept as [shape, val]: its shape and the expression it holds.           *)

Tensor(shape, val) == [shape |-> shape, val |-> val]
NoneValue == [shape |-> <<>>, val |-> "None"]
IsAssigned(name) == name \in DOMAIN locals
Assign(name, v) == name :> v

\* the keys of self.parameter_bounds of HBV_adj as __init__ sets them
AdjBounds ==
    <<"parBETA", "parFC", "parK0", "parK1", "parK2", "parLP", "parPERC",
      "parUZL", "parTT", "parCFMAX", "parCFR", "parCWH">>
\* the keys HBV_function.forward reads, in the order of its theta columns
FunctionReads == AdjBounds \o <<"parBETAET">>
\* the keys of self.parameter_bounds of HBVCapillary
CapillaryBounds == AdjBounds \o <<"parBETAET", "parC">>
RoutingBounds == <<"rout_a", "rout_b">>
SeqSet(q) == {q[k] : k \in 1..Len(q)}

\* the number of time steps of the run
RunLength == IF model = "HBV_adj" \/ warm_up_states THEN NSteps - warm_up ELSE NSteps

\* tensor[c:, :, :]
CanSlice3(v) == Len(v.shape) >= 3
Slice3(v, c) ==
    Tensor([v.shape EXCEPT ![1] = IF v.shape[1] > c THEN v.shape[1] - c ELSE 0],
           <<"drop", c, v.val>>)

Raise(e) ==
    /\ fpc' = "raised"
    /\ error' = e

\* __init__ of either model
Construct ==
    /\ fpc = "construct"
    /\ bounds_keys' =
          IF model = "HBV_1_1p" THEN CapillaryBounds
          ELSE IF config_given /\ "parBETAET" \in dy_params
               THEN AdjBounds \o <<"parBETAET">>
               ELSE AdjBounds
    /\ rout_params_name' = IF routing THEN RoutingBounds ELSE <<>>
    /\ fpc' = "unpack"
    /\ UNCHANGED <<config_given, routing, comprout, initialize, locals, out_dict,
                   trunc_idx, error>>
    /\ UNCHANGED <<newtonVars, hbvVars, maskVars, rhsVars, mergeVars>>

\* HBV_adj.unpack_parameters
UnpackAdj ==
    /\ fpc = "unpack"
    /\ model = "HBV_adj"
    /\ LET count == Len(bounds_keys)
           phy == Assign("phy_params", Tensor(<<NSteps, bsnew, count>>, "sigmoid"))
           rout == Assign("routing_params", Tensor(<<NGrid, 2>>, "sigmoid"))
       IN  IF routing
           THEN /\ locals' = phy @@ rout @@ locals
                /\ fpc' = "integrate"
                /\ error' = error
           ELSE /\ locals' = phy @@ locals
                /\ Raise("UnboundLocalError routing_params")
    /\ UNCHANGED <<config_given, routing, comprout, initialize, bounds_keys,
                   rout_params_name, out_dict, trunc_idx>>
    /\ UNCHANGED <<newtonVars, hbvVars, maskVars, rhsVars, mergeVars>>

\* HBV_adj.forward: the warm-up and run integrations and the flux loop; the
\* first evaluation of HBV_function.forward reads every bound and column
IntegrateAdj ==
    /\ fpc = "integrate"
    /\ model = "HBV_adj"
    /\ LET count == locals["phy_params"].shape[3]
           missing == {k \in 1..Len(FunctionReads) :
                          FunctionReads[k] \notin SeqSet(bounds_keys)}
           sim == Tensor(<<RunLength, NGrid, 1>>,
                         IF NMul > 1 THEN "mean(simulation)" ELSE "simulation")
       IN  IF ~config_given
           THEN /\ Raise("AttributeError AD_efficient")
                /\ locals' = locals
           ELSE IF missing # {}
           THEN /\ Raise("KeyError parBETAET")
                /\ locals' = locals
           ELSE IF Len(FunctionReads) > count
           THEN /\ Raise("IndexError theta")
                /\ locals' = locals
           ELSE /\ locals' = Assign("simulation", sim) @@ locals
                /\ fpc' = "route"
                /\ error' = error
    /\ UNCHANGED <<config_given, routing, comprout, initialize, bounds_keys,
                   rout_params_name, out_dict, trunc_idx>>
    /\ UNCHANGED <<newtonVars, hbvVars, maskVars, rhsVars, mergeVars>>

\* HBV_adj.forward: routing and return
RouteAdj ==
    /\ fpc = "route"
    /\ model = "HBV_adj"
    /\ IF "rout_a" \in SeqSet(rout_params_name)
       THEN /\ out_dict' = <<<<"flow_sim", Tensor(<<RunLength, NGrid, 1>>, "Qsrout")>>>>
            /\ fpc' = "returned"
            /\ error' = error
       ELSE /\ Raise("KeyError rout_a")
            /\ out_dict' = out_dict
    /\ UNCHANGED <<config_given, routing, comprout, initialize, bounds_keys,
                   rout_params_name, locals, trunc_idx>>
    /\ UNCHANGED <<newtonVars, hbvVars, maskVars, rhsVars, mergeVars>>

\* HBVCapillary.forward: unpacking and the time loop, then the average
AverageCapillary ==
    /\ fpc = "unpack"
    /\ model = "HBV_1_1p"
    /\ locals' = Assign("Qsimavg", Tensor(<<RunLength, NGrid>>, "mean(Qsimmu)"))
                 @@ locals
    /\ fpc' = "route"
    /\ UNCHANGED <<config_given, routing, comprout, initialize, bounds_keys,
                   rout_params_name, out_dict, trunc_idx, error>>
    /\ UNCHANGED <<newtonVars, hbvVars, maskVars, rhsVars, mergeVars>>

\* HBVCapillary.forward: `if self.routing: ... else: ...`
RouteCapillary ==
    /\ fpc = "route"
    /\ model = "HBV_1_1p"
    /\ LET T == RunLength
           routed(v) == Tensor(<<T, NGrid, 1>>, v)
           Qsim == IF comprout THEN Tensor(<<T, NGrid * NMul>>, "view(Qsimmu)")
                   ELSE locals["Qsimavg"]
           Qsrout == Tensor(<<T, Qsim.shape[2], 1>>, "Qsrout")
           Qs == IF comprout THEN Tensor(<<T, NGrid, 1>>, "mean(Qsrout)")
                 ELSE Qsrout
       IN  locals' =
             IF routing
             THEN Assign("Qsim", Qsim) @@ Assign("Qsrout", Qsrout)
                  @@ Assign("Q0_rout", routed("Q0_rout"))
                  @@ Assign("Q1_rout", routed("Q1_rout"))
                  @@ Assign("Q2_rout", routed("Q2_rout"))
                  @@ Assign("Qs", Qs) @@ locals
             ELSE Assign("Qs", Tensor(<<T, NGrid, 1>>, locals["Qsimavg"].val))
                  @@ Assign("Q0_rout", NoneValue)
                  @@ Assign("Q1_rout", NoneValue)
                  @@ Assign("Q2_rout", NoneValue) @@ locals
    /\ fpc' = "result"
    /\ UNCHANGED <<config_given, routing, comprout, initialize, bounds_keys,
                   rout_params_name, out_dict, trunc_idx, error>>
    /\ UNCHANGED <<newtonVars, hbvVars, maskVars, rhsVars, mergeVars>>

\* warm-up mode: return Qs and the storages
ReturnStates ==
    /\ fpc = "result"
    /\ initialize
    /\ out_dict' = <<<<"Qs", locals["Qs"]>>>>
    /\ fpc' = "returned"
    /\ UNCHANGED <<config_given, routing, comprout, initialize, bounds_keys,
                   rout_params_name, locals, trunc_idx, error>>
    /\ UNCHANGED <<newtonVars, hbvVars, maskVars, rhsVars, mergeVars>>

\* BFI_sim = 100 * (torch.sum(Q2_rout, dim=0) / (...))[:, 0]
BaseflowIndex ==
    /\ fpc = "result"
    /\ ~initialize
    /\ IF locals["Q2_rout"] = NoneValue
       THEN /\ Raise("TypeError sum(None)")
            /\ locals' = locals
       ELSE /\ locals' = Assign("BFI_sim", Tensor(<<NGrid>>, "BFI")) @@ locals
            /\ fpc' = "dict"
            /\ error' = error
    /\ UNCHANGED <<config_given, routing, comprout, initialize, bounds_keys,
                   rout_params_name, out_dict, trunc_idx>>
    /\ UNCHANGED <<newtonVars, hbvVars, maskVars, rhsVars, mergeVars>>

\* x.mean(-1, keepdim=True)
MeanKeep(v) == Tensor([v.shape EXCEPT ![Len(v.shape)] = 1], <<"mean", v.val>>)
\* x.unsqueeze(dim=2) of a two-dimensional tensor
Unsqueeze2(v) == Tensor(v.shape \o <<1>>, v.val)
Series(name) == Tensor(<<RunLength, NGrid, NMul>>, name)

\* out_dict = {...}
BuildOutDict ==
    /\ fpc = "dict"
    /\ IF ~IsAssigned("Qsim")
       THEN /\ Raise("NameError Qsim")
            /\ out_dict' = out_dict
            /\ trunc_idx' = trunc_idx
       ELSE /\ out_dict' =
                 << <<"flow_sim", locals["Qs"]>>,
                    <<"srflow", locals["Q0_rout"]>>,
                    <<"ssflow", locals["Q1_rout"]>>,
                    <<"gwflow", locals["Q2_rout"]>>,
                    <<"AET_hydro", MeanKeep(Series("AET"))>>,
                    <<"PET_hydro", MeanKeep(Series("PETm"))>>,
                    <<"SWE", MeanKeep(Series("SWE_sim"))>>,
                    <<"flow_sim_no_rout", Unsqueeze2(locals["Qsim"])>>,
                    <<"srflow_no_rout", MeanKeep(Series("Q0_sim"))>>,
                    <<"ssflow_no_rout", MeanKeep(Series("Q1_sim"))>>,
                    <<"gwflow_no_rout", MeanKeep(Series("Q2_sim"))>>,
                    <<"recharge", MeanKeep(Series("recharge_sim"))>>,
                    <<"excs", MeanKeep(Series("excs_sim"))>>,
                    <<"evapfactor", MeanKeep(Series("evapfactor_sim"))>>,
                    <<"tosoil", MeanKeep(Series("tosoil_sim"))>>,
                    <<"percolation", MeanKeep(Series("PERC_sim"))>>,
                    <<"capillary", MeanKeep(Series("capillary_sim"))>>,
                    <<"BFI_sim", MeanKeep(locals["BFI_sim"])>> >>
            /\ trunc_idx' = 0
            /\ fpc' = IF warm_up_states THEN "returned" ELSE "truncate"
            /\ error' = error
    /\ UNCHANGED <<config_given, routing, comprout, initialize, bounds_keys,
                   rout_params_name, locals>>
    /\ UNCHANGED <<newtonVars, hbvVars, maskVars, rhsVars, mergeVars>>

\* one pass of `for key in out_dict.keys(): out_dict[key] = out_dict[key][self.pred_cutoff:, :, :]`
TruncateKey ==
    /\ fpc = "truncate"
    /\ LET k == trunc_idx + 1
           entry == out_dict[k]
       IN  IF CanSlice3(entry[2])
           THEN /\ out_dict' = [out_dict EXCEPT ![k] = <<entry[1], Slice3(entry[2], warm_up)>>]
                /\ trunc_idx' = k
                /\ fpc' = IF k = Len(out_dict) THEN "returned" ELSE "truncate"
                /\ error' = error
           ELSE /\ Raise("IndexError")
                /\ out_dict' = out_dict
                /\ trunc_idx' = trunc_idx
    /\ UNCHANGED <<config_given, routing, comprout, initialize, bounds_keys,
                   rout_params_name, locals>>
    /\ UNCHANGED <<newtonVars, hbvVars, maskVars, rhsVars, mergeVars>>

\* the configurations of the forward evaluation
InitForward ==
    /\ model \in {"HBV_1_1p", "HBV_adj"}
    /\ config_given \in BOOLEAN
    /\ routing \in BOOLEAN
    /\ comprout \in BOOLEAN
    /\ initialize \in BOOLEAN
    /\ warm_up_states \in BOOLEAN
    /\ warm_up \in 0..(NSteps - 1)
    /\ dy_params \in {{}, {"parBETA"}, {"parBETAET"}}
    \* without a config every attribute keeps its default
    /\ ~config_given =>
          /\ ~routing /\ ~comprout /\ ~warm_up_states
          /\ warm_up = 0 /\ dy_params = {}
    /\ model = "HBV_adj" => (~initialize /\ ~warm_up_states /\ ~comprout)
    \* the warm-up instance is configured by its caller
    /\ initialize =>
          /\ config_given /\ warm_up_states
          /\ ~routing /\ ~comprout /\ warm_up = 0 /\ dy_params = {}
    /\ fpc = "construct"
    /\ bounds_keys = <<>>
    /\ rout_params_name = <<>>
    /\ locals = <<>>
    /\ out_dict = <<>>
    /\ trunc_idx = 0
    /\ error = "none"
    /\ dy_drop = <<0, 1>>
    /\ static_idx = -1
    /\ name_idx = 0
    /\ drmask = <<>>
    /\ parameter_dict = <<>>
    /\ phy_params_warmup = <<>>
    /\ phase = "none"
    /\ computed = 0
    /\ NewtonIdle
    /\ HbvIdle
    /\ RhsIdle
    /\ MergeIdle

NextForward ==
    \/ Construct
    \/ UnpackAdj
    \/ IntegrateAdj
    \/ RouteAdj
    \/ AverageCapillary
    \/ RouteCapillary
    \/ ReturnStates
    \/ BaseflowIndex
    \/ BuildOutDict
    \/ TruncateKey

SpecForward == InitForward /\ [][NextForward]_vars

-----------------------------------------------------------------------------
(* HBV_function.forward: the right-hand side of the storage equations for    *)
(* one batch element, in exact rationals.                                    *)

\* self.parameter_bounds as HBV_adj passes it, with parBETAET when it is dynamic
BoundTable(withBetaEt) ==
    LET base == "parBETA" :> <<R(1), R(6)>> @@ "parFC" :> <<R(50), R(1000)>>
             @@ "parK0" :> <<Q(1, 20), Q(9, 10)>> @@ "parK1" :> <<Q(1, 100), Q(1, 2)>>
             @@ "parK2" :> <<Q(1, 1000), Q(1, 5)>> @@ "parLP" :> <<Q(1, 5), R(1)>>
             @@ "parPERC" :> <<R(0), R(10)>> @@ "parUZL" :> <<R(0), R(100)>>
             @@ "parTT" :> <<Q(-5, 2), Q(5, 2)>> @@ "parCFMAX" :> <<Q(1, 2), R(10)>>
             @@ "parCFR" :> <<R(0), Q(1, 10)>> @@ "parCWH" :> <<R(0), Q(1, 5)>>
    IN  IF withBetaEt THEN base @@ "parBETAET" :> <<Q(3, 10), R(5)>> ELSE base

\* bounds[name][0] + theta[:, k] * (bounds[name][1] - bounds[name][0])
Descale(pb, th, k) ==
    LET b == pb[FunctionReads[k]]
    IN  RAdd(b[1], RMul(th[k], RSub(b[2], b[1])))

\* a ** e for the integral exponents the inputs produce
RECURSIVE RPowN(_, _)
RPowN(a, n) == IF n = 0 THEN R(1) ELSE RMul(a, RPowN(a, n - 1))
RPow(a, e) == RPowN(a, e[1])

\* torch.clamp(v, min=0.0, max=1.0)
Clamp01(v) == RMin(RMax(v, R(0)), R(1))
\* torch.mul(P, mask)
MulMask(v, mask) == IF mask THEN v ELSE R(0)

Snowfall(P, T, TT) == MulMask(P, RLt(T, TT))
Refreeze(CFR, CFMAX, T, TT, meltwater) ==
    RMin(Clamp0(RMul(RMul(CFR, CFMAX), RSub(TT, T))), meltwater)
Melt(CFMAX, T, TT, snowpack) == RMin(Clamp0(RMul(CFMAX, RSub(T, TT))), snowpack)
RainfallStrict(P, T, TT) == MulMask(P, RGt(T, TT))
Rainfall(P, T, TT) == MulMask(P, RGe(T, TT))
Isnow(meltwater, CWH, snowpack) == Clamp0(RSub(meltwater, RMul(CWH, snowpack)))
Peff(sm, FC, Beta, flux_rf, flux_Isnow) ==
    RMul(RAdd(flux_rf, flux_Isnow), Clamp01(RPow(RDiv(sm, FC), Beta)))
Excess(sm, FC) == Clamp0(RSub(sm, FC))
Evap(sm, FC, LP, Ep, BETAET) ==
    RMin(sm, RMul(Ep, Clamp01(RPow(RDiv(sm, RMul(LP, FC)), BETAET))))
Interflow(K0, suz, UZL) == RMul(K0, Clamp0(RSub(suz, UZL)))
Percolation(PERC, suz) == RMin(suz, PERC)
Baseflow(K, S) == RMul(K, S)

\* the stores and the flux_* locals of HBV_function.forward
Fluxes(yy, th, cl, pb) ==
    LET Beta == Descale(pb, th, 1)
        FC == Descale(pb, th, 2)
        K0 == Descale(pb, th, 3)
        K1 == Descale(pb, th, 4)
        K2 == Descale(pb, th, 5)
        LP == Descale(pb, th, 6)
        PERC == Descale(pb, th, 7)
        UZL == Descale(pb, th, 8)
        TT == Descale(pb, th, 9)
        CFMAX == Descale(pb, th, 10)
        CFR == Descale(pb, th, 11)
        CWH == Descale(pb, th, 12)
        BETAET == Descale(pb, th, 13)
        snowpack == RMax(yy[1], R(0))
        meltwater == RMax(yy[2], R(0))
        sm == RMax(yy[3], Q(1, 100000000))
        suz == RMax(yy[4], R(0))
        slz == RMax(yy[5], R(0))
        P == cl[1]
        T == cl[2]
        Ep == cl[3]
        rf == Rainfall(P, T, TT)
        isnow == Isnow(meltwater, CWH, snowpack)
    IN  [flux_sf |-> Snowfall(P, T, TT),
         flux_refr |-> Refreeze(CFR, CFMAX, T, TT, meltwater),
         flux_melt |-> Melt(CFMAX, T, TT, snowpack),
         flux_rf |-> rf,
         flux_Isnow |-> isnow,
         flux_PEFF |-> Peff(sm, FC, Beta, rf, isnow),
         flux_ex |-> Excess(sm, FC),
         flux_et |-> Evap(sm, FC, LP, Ep, BETAET),
         flux_perc |-> Percolation(PERC, suz),
         flux_q0 |-> Interflow(K0, suz, UZL),
         flux_q1 |-> Baseflow(K1, suz),
         flux_q2 |-> Baseflow(K2, slz)]

\* dS[:, 0..4] and fluxes[:, 0]
StoreODEs(f) ==
    [dS |-> <<RSub(RAdd(f.flux_sf, f.flux_refr), f.flux_melt),
              RSub(RSub(f.flux_melt, f.flux_refr), f.flux_Isnow),
              RSub(RSub(RSub(RAdd(f.flux_Isnow, f.flux_rf), f.flux_PEFF), f.flux_ex),
                   f.flux_et),
              RSub(RSub(RSub(RAdd(f.flux_PEFF, f.flux_ex), f.flux_perc), f.flux_q0),
                   f.flux_q1),
              RSub(f.flux_perc, f.flux_q2)>>,
     fluxes |-> RAdd(RAdd(f.flux_q0, f.flux_q1), f.flux_q2)]

\* HBV_function.forward(y, theta, t, returnFlux)
HBVForward ==
    /\ rhs_pc = "called"
    /\ IF \E k \in 1..Len(FunctionReads) : FunctionReads[k] \notin DOMAIN parameter_bounds
       THEN /\ rhs_pc' = "KeyError"
            /\ rhs_out' = rhs_out
       ELSE LET f == Fluxes(y, theta, climate_in, parameter_bounds)
                o == StoreODEs(f)
            IN  /\ rhs_pc' = "returned"
                /\ rhs_out' = IF returnFlux
                              THEN <<o.fluxes, f.flux_q0, f.flux_q1, f.flux_q2, f.flux_et>>
                              ELSE <<o.dS, o.fluxes>>
    /\ UNCHANGED <<y, theta, climate_in, returnFlux, parameter_bounds>>
    /\ UNCHANGED <<newtonVars, hbvVars, maskVars, fwdVars, mergeVars>>

\* scaled parameters theta[:, 0..12]; the exponents they give are integral
ThetaSet ==
    { <<R(0), R(0), R(0), R(0), R(0), R(0), R(0), R(0), R(0), R(0), R(0), R(0), Q(7, 47)>>,
      <<Q(2, 5), R(1), R(1), R(1), R(1), R(1), R(1), R(1), R(1), R(1), R(1), R(1), Q(17, 47)>>,
      <<Q(1, 5), R(0), R(1), R(1), R(1), R(1), Q(1, 2), R(0), Q(1, 2), Q(1, 19), R(1), R(1),
        Q(7, 47)>> }

\* states y[:, 0..4]
YSet ==
    { <<R(20), R(5), R(30), R(10), R(40)>>,
      <<R(-1), R(2), R(60), R(150), R(3)>>,
      <<R(3), R(10), R(1200), R(8), R(0)>> }

\* forcing rows <<P, T, Ep>>
ClimateSet ==
    { <<R(0), R(0), R(0)>>, <<R(10), Q(5, 2), R(2)>>, <<R(4), R(-5), R(1)>>,
      <<R(6), R(20), R(3)>>, <<R(8), Q(-5, 2), R(1)>>, <<R(5), R(0), R(2)>> }

InitRhs ==
    /\ y \in YSet
    /\ theta \in ThetaSet
    /\ climate_in \in ClimateSet
    /\ returnFlux \in BOOLEAN
    /\ parameter_bounds \in {BoundTable(TRUE), BoundTable(FALSE)}
    /\ rhs_pc = "called"
    /\ rhs_out = <<>>
    /\ NewtonIdle
    /\ HbvIdle
    /\ MaskIdle
    /\ FwdIdle
    /\ MergeIdle

NextRhs == HBVForward

SpecRhs == InitRhs /\ [][NextRhs]_vars

-----------------------------------------------------------------------------
(* HBV_adj.forward: merging the realizations into the batch dimension.  A    *)
(* tensor is kept dense: its shape and its elements in row-major order,      *)
(* positions counted from 0 as torch does.                                   *)

ParamCount == 2
ForcingCount == 2

RECURSIVE Prod(_)
Prod(s) == IF s = <<>> THEN 1 ELSE Head(s) * Prod(Tail(s))

\* the stride of dimension k of a contiguous tensor
Stride(shp, k) == Prod(SubSeq(shp, k + 1, Len(shp)))
\* position in storage -> index per dimension
Unflatten(pos, shp) == [k \in 1..Len(shp) |-> (pos \div Stride(shp, k)) % shp[k]]
RECURSIVE FlattenFrom(_, _, _)
FlattenFrom(ix, shp, k) ==
    IF k > Len(shp) THEN 0 ELSE ix[k] * Stride(shp, k) + FlattenFrom(ix, shp, k + 1)
\* index per dimension -> position in storage
Flatten(ix, shp) == FlattenFrom(ix, shp, 1)

Dense(shp, elems) == [shape |-> shp, data |-> elems]
Build(shp, Elem(_)) == Dense(shp, [pos \in 0..(Prod(shp) - 1) |-> Elem(Unflatten(pos, shp))])
At(v, ix) == v.data[Flatten(ix, v.shape)]

\* tensor.view(shp) and tensor.reshape(shp) of a contiguous tensor
View(v, shp) == Dense(shp, v.data)
\* tensor.permute(order), order counted from 0
Permute(v, order) ==
    LET shp == [k \in 1..Len(order) |-> v.shape[order[k] + 1]]
        Src(ix) == [j \in 1..Len(order) |->
                       ix[CHOOSE k \in 1..Len(order) : order[k] + 1 = j]]
        Elem(ix) == At(v, Src(ix))
    IN  Build(shp, Elem)
\* tensor.unsqueeze(1)
Unsqueeze1(v) == Dense(<<v.shape[1], 1>> \o Tail(v.shape), v.data)
\* tensor.repeat(reps)
Repeat(v, reps) ==
    LET shp == [k \in 1..Len(reps) |-> v.shape[k] * reps[k]]
        Elem(ix) == At(v, [k \in 1..Len(reps) |-> ix[k] % v.shape[k]])
    IN  Build(shp, Elem)
\* tensor[from:to, ...]
Rows(v, from, to) ==
    LET shp == [v.shape EXCEPT ![1] = to - from]
        Elem(ix) == At(v, [ix EXCEPT ![1] = ix[1] + from])
    IN  Build(shp, Elem)
\* tensor.mean(dim=1) of a four-dimensional tensor: the elements averaged
Mean1(v) ==
    LET shp == <<v.shape[1], v.shape[3], v.shape[4]>>
        Elem(ix) == {At(v, <<ix[1], r, ix[2], ix[3]>>) : r \in 0..(v.shape[2] - 1)}
    IN  Build(shp, Elem)

\* torch.sigmoid(parameters[:, :, :phy_param_count * nmul]).view(...)
\*     .permute([0,3,1,2]).reshape(n_steps, bsnew, phy_param_count)
MergeParameters(raw, nm) ==
    LET T == raw.shape[1]
        grid == raw.shape[2]
    IN  View(Permute(View(raw, <<T, grid, ParamCount, nm>>), <<0, 3, 1, 2>>),
             <<T, grid * nm, ParamCount>>)

\* the same with the basins outermost in the merged dimension
MergeForcingBasinMajor(xs, nm) ==
    LET rep == Permute(Repeat(Unsqueeze1(xs), <<1, nm, 1, 1>>), <<0, 2, 1, 3>>)
    IN  View(rep, <<rep.shape[1], xs.shape[2] * nm, rep.shape[4]>>)

\* x.unsqueeze(1).repeat([1, nmul, 1, 1]) and .view(shape[0], bsnew, shape[-1])
MergeForcing(xs, nm) ==
    LET rep == Repeat(Unsqueeze1(xs), <<1, nm, 1, 1>>)
    IN  View(rep, <<rep.shape[1], xs.shape[2] * nm, rep.shape[4]>>)

\* one row of a three-dimensional tensor
Row(v, a, k) == [c \in 1..v.shape[3] |-> At(v, <<a, k, c - 1>>)]

\* unpack_parameters: the physical parameters
UnpackMerge ==
    /\ mpc = "unpack"
    /\ phy_params' = MergeParameters(parameters, nmul)
    /\ mpc' = "forcing"
    /\ UNCHANGED <<nmul, n_grid, n_steps, warm_up, parameters, x_phy, x_warmup, xTrain,
                   simulation>>
    /\ UNCHANGED <<newtonVars, hbvVars, fwdVars, rhsVars>>
    /\ UNCHANGED <<model, dy_params, dy_drop, static_idx, name_idx, drmask,
                   parameter_dict, warm_up_states, phy_params_warmup, phase, computed>>

\* forward: x_warmup and xTrain
MergeForcings ==
    /\ mpc = "forcing"
    /\ x_warmup' = IF warm_up > 0
                   THEN MergeForcing(Rows(x_phy, 0, warm_up), nmul)
                   ELSE None
    /\ xTrain' = MergeForcing(Rows(x_phy, warm_up, n_steps), nmul)
    /\ mpc' = "simulate"
    /\ UNCHANGED <<nmul, n_grid, n_steps, warm_up, parameters, x_phy, phy_params,
                   simulation>>
    /\ UNCHANGED <<newtonVars, hbvVars, fwdVars, rhsVars>>
    /\ UNCHANGED <<model, dy_params, dy_drop, static_idx, name_idx, drmask,
                   parameter_dict, warm_up_states, phy_params_warmup, phase, computed>>

\* forward: the integration and the flux loop; the flow of merged element k
\* on a day is a function of row k of the parameters and row k of the forcing
Simulate ==
    /\ mpc = "simulate"
    /\ LET nt == n_steps - warm_up
           run == Rows(phy_params, warm_up, n_steps)
           Elem(ix) == [par |-> Row(run, ix[1], ix[2]), frc |-> Row(xTrain, ix[1], ix[2])]
       IN  simulation' = Build(<<nt, n_grid * nmul, 1>>, Elem)
    /\ mpc' = "average"
    /\ UNCHANGED <<nmul, n_grid, n_steps, warm_up, parameters, x_phy, phy_params,
                   x_warmup, xTrain>>
    /\ UNCHANGED <<newtonVars, hbvVars, fwdVars, rhsVars>>
    /\ UNCHANGED <<model, dy_params, dy_drop, static_idx, name_idx, drmask,
                   parameter_dict, warm_up_states, phy_params_warmup, phase, computed>>

\* forward: if self.nmul > 1: view(nt, nmul, bs, nflux).mean(dim=1)
Average ==
    /\ mpc = "average"
    /\ simulation' =
          IF nmul > 1
          THEN Mean1(View(simulation, <<n_steps - warm_up, nmul, n_grid, 1>>))
          ELSE simulation
    /\ mpc' = "averaged"
    /\ UNCHANGED <<nmul, n_grid, n_steps, warm_up, parameters, x_phy, phy_params,
                   x_warmup, xTrain>>
    /\ UNCHANGED <<newtonVars, hbvVars, fwdVars, rhsVars>>
    /\ UNCHANGED <<model, dy_params, dy_drop, static_idx, name_idx, drmask,
                   parameter_dict, warm_up_states, phy_params_warmup, phase, computed>>

\* raw network output [n_steps, n_grid, phy_param_count * nmul]: column
\* c * nmul + r holds realization r of parameter c
RawParameters(T, grid, nm) ==
    LET Elem(ix) == <<"par", ix[1], ix[2], ix[3] \div nm, ix[3] % nm>>
    IN  Build(<<T, grid, ParamCount * nm>>, Elem)
\* forcing [n_steps, n_grid, n_forcings]
RawForcing(T, grid) ==
    LET Elem(ix) == <<"x", ix[1], ix[2], ix[3]>>
    IN  Build(<<T, grid, ForcingCount>>, Elem)

InitMerge ==
    /\ nmul \in 1..NMul
    /\ n_grid \in 1..NGrid
    /\ n_steps \in 1..NSteps
    /\ warm_up \in 0..(n_steps - 1)
    /\ parameters = RawParameters(n_steps, n_grid, nmul)
    /\ x_phy = RawForcing(n_steps, n_grid)
    /\ phy_params = None
    /\ x_warmup = None
    /\ xTrain = None
    /\ simulation = None
    /\ mpc = "unpack"
    /\ model = "HBV_adj"
    /\ dy_params = {}
    /\ dy_drop = <<0, 1>>
    /\ static_idx = -1
    /\ name_idx = 0
    /\ drmask = <<>>
    /\ parameter_dict = <<>>
    /\ warm_up_states = FALSE
    /\ phy_params_warmup = <<>>
    /\ phase = "none"
    /\ computed = 0
    /\ NewtonIdle
    /\ HbvIdle
    /\ FwdIdle
    /\ RhsIdle

NextMerge ==
    \/ UnpackMerge
    \/ MergeForcings
    \/ Simulate
    \/ Average

SpecMerge == InitMerge /\ [][NextMerge]_vars

-----------------------------------------------------------------------------
(* Properties of NewtonSolve and MOL *)

Returned == pc = "done"
LinRoot(e) == RDiv(G.b, p[e])

\* C2 (as claimed): the loop ends exactly when the largest residual norm of
\* the batch is within the tolerance or the cap of max_iter = 3 updates is
\* reached; a returned solve has performed at most max_iter updates.
C2_LoopStopsAtCap ==
    Returned =>
        /\ i <= max_iter
        /\ (RLe(BatchMax(resnorm), gtol) \/ i = max_iter)

\* C3 (as claimed): the Jacobians saved for backward are all evaluated at
\* the iterate the solve returns.
C3_SavedJacobiansAtFinalIterate ==
    (Returned /\ ~evalMode) =>
        /\ saved[1] = JacPAll(G, x, p, p2)
        /\ (p2 # None => saved[2] = JacP2All(G, x, p, p2))
        /\ saved[3] = JacXAll(G, x, p, p2)

\* C4 (as claimed): a solve that computed a Jacobian with a NaN or infinite
\* entry raises and returns no state, with and without p2.
C4_NonFiniteJacobianRaises ==
    (Returned /\ ~evalMode) =>
        /\ ~AnyNonFinite(saved[1])
        /\ (saved[2] # None => ~AnyNonFinite(saved[2]))
        /\ ~AnyNonFinite(saved[3])

\* C5: whatever the number of iterations, a returned solve retains exactly
\* the three Jacobians dG/dp, dG/dp2, dG/dx (nothing in eval mode), and every
\* retained context that backward reads has exactly these three items.
C5_RetainsThreeJacobians ==
    /\ Returned =>
          IF evalMode THEN saved = <<>>
          ELSE /\ Len(saved) = 3
               /\ saved = <<JacPAll(G, x, p, p2),
                            IF p2 = None THEN None ELSE JacP2All(G, x, p, p2),
                            dGdx>>
    /\ \A k \in 1..Len(ctxs) : Len(ctxs[k]) = IF evalMode THEN 0 ELSE 3

C5_Witness == Returned /\ ~evalMode /\ i = max_iter + 1 /\ Len(saved) = 3

\* C6 (as claimed): in the time loop, backward returns None for the previous
\* state xt and a gradient only for p.
C6_NoGradientForPreviousState ==
    (G.kind = "mol" /\ grads # <<>>) => (grads[1] # None /\ grads[2] = None)

\* C6 (amended): backward returns nine values; the first is the gradient of
\* p, the second is the gradient of p2 and is None exactly when no p2 was
\* given, the other seven (t, G, x0, auxG, batchP, eval, AD_efficient) are
\* None.  In the time loop the previous state xt is p2, so it gets a gradient.
C6_GradientForP2NotX0 ==
    grads # <<>> =>
        /\ Len(grads) = 9
        /\ grads[1] # None
        /\ (grads[2] = None) <=> (p2 = None)
        /\ \A k \in 3..9 : grads[k] = None
        /\ G.kind = "mol" => grads[2] # None

C6_Witness == pc = "backdone" /\ G.kind = "mol" /\ grads[2] # None /\ grads[5] = None

\* C7 (as claimed): for G = a*x - b the gradient returned for a is
\* g * (-b/a^2), for every start point.
C7_LinearGradientExact ==
    (G.kind = "lin" /\ pc = "backdone") =>
        \A e \in Batch :
            grads[1][e] = RNeg(RMul(dLdx[e], RDiv(G.b, RMul(p[e], p[e]))))

\* C7 (amended): the gradient returned for a is -g * x / a with x the
\* returned iterate; it is g * (-b/a^2) whenever an update was performed.
C7_LinearGradientAtReturned ==
    (G.kind = "lin" /\ pc = "backdone") =>
        \A e \in Batch :
            /\ grads[1][e] = RNeg(RDiv(RMul(dLdx[e], x[e]), p[e]))
            /\ i >= 1 =>
                 grads[1][e] = RNeg(RMul(dLdx[e], RDiv(G.b, RMul(p[e], p[e]))))

C7_Witness ==
    /\ G.kind = "lin" /\ pc = "backdone" /\ i = 1
    /\ grads[1][1] = RNeg(RMul(dLdx[1], RDiv(G.b, RMul(p[1], p[1]))))

\* C8 (as claimed): for G = a*x - b the returned value differs from b/a by
\* at most 1e-6 in every batch element, within the iteration cap.
C8_LinearRootToMicro ==
    (G.kind = "lin" /\ Returned) =>
        /\ i <= max_iter
        /\ \A e \in Batch : RLe(RAbs(RSub(x[e], LinRoot(e))), Q(1, 1000000))

\* C8 (amended): the returned value has residual |a*x - b| <= gtol = 1e-3 in
\* every batch element after at most one update, and it is exactly b/a in
\* every element when an update was performed.
C8_LinearResidualWithinGtol ==
    G.kind = "lin" =>
        /\ i <= 1
        /\ (i = 1 /\ pc # "raised") => \A e \in Batch : x[e] = LinRoot(e)
        /\ Returned =>
              \A e \in Batch : RLe(RAbs(RSub(RMul(p[e], x[e]), G.b)), gtol)

C8_Witness ==
    G.kind = "lin" /\ Returned /\ i = 1 /\ \A e \in Batch : x[e] = LinRoot(e)

\* the loop has used up its passes with the largest residual above gtol
NotConverged == i > max_iter /\ RGt(BatchMax(resnorm), gtol)

\* C14: when the Newton loop reaches the iteration cap with the maximum
\* residual still above the tolerance, forward raises no error and returns
\* the last iterate, and the time loop stores it and continues with it as the
\* previous state of the next step.
C14_NonConvergenceTolerated ==
    [][NotConverged =>
          /\ (pc = "loop" /\ pc' # "loop") => (pc' = "done" /\ x' = x)
          /\ (pc = "done" /\ G.kind = "mol" /\ pc' # "done") =>
                /\ ySolution'[t + 1] = x
                /\ xt' = x
                /\ pc' = IF t + 1 < rho THEN "idle" ELSE "finished"]_vars

\* the time loop went on after a solve that did not converge
C14_Witness ==
    /\ G.kind = "mol"
    /\ pc = "idle"
    /\ t >= 1
    /\ NotConverged
    /\ xt = x
    /\ xt # ySolution[t + 1]

\* C15: nsteps_pDyn performs exactly rho solves in increasing order of t; a
\* solve starts only when the previous one has returned and been stored, takes
\* the previous step's state (x0 for t = 0) as previous state and as initial
\* iterate, takes the parameter slice pDyn[t], and its result becomes
\* trajectory entry t.
C15_SequentialTimeLoop ==
    [][G.kind = "mol" =>
          /\ (pc = "idle" /\ pc' # "idle") =>
                /\ Len(ctxs) = t
                /\ xt = ySolution[IF t = 0 THEN 1 ELSE t]
                /\ p' = pDyn[t + 1]
                /\ p2' = xt
                /\ x' = xt
          /\ (pc = "done" /\ pc' # "done") =>
                /\ Len(ctxs) = t + 1
                /\ ySolution'[t + 1] = x
                /\ t' = t + 1
          /\ pc' = "finished" => (t' = rho /\ Len(ctxs') = rho)]_vars

\* a run of two steps with different parameter slices has finished
C15_Witness ==
    /\ G.kind = "mol"
    /\ pc = "finished"
    /\ rho >= 2
    /\ pDyn[1] # pDyn[2]
    /\ ySolution[1] # ySolution[2]

\* some element's ratio of current to previous residual norm exceeds 0.2
RatioExceeds == \E e \in Batch : RGt(RDiv(resnorm[e], resnorm0[e]), reuseRatio)

\* C16 (as claimed): in each Newton iteration the state Jacobian is recomputed
\* at the current iterate if and only if the largest ratio current / previous
\* residual norm of the batch exceeds 0.2; otherwise the most recently
\* computed Jacobian is used unchanged.
C16_JacobianReuseRule ==
    [][(pc = "loop" /\ i' = i + 1) =>
          dGdx' = IF RatioExceeds THEN JacXAll(G, x, p, p2) ELSE dGdx]_vars

-----------------------------------------------------------------------------
(* Properties of the explicit stepper *)

Storages(m) == SNOWPACK[m] + MELTWATER[m] + SM[m] + SUZ[m] + SLZ[m]
Running == step >= 1

QuietDay(m) ==
    /\ flux'[m].AET = 0
    /\ flux'[m].capillary = 0
    /\ flux'[m].PERC = 0
Outflow(m) == flux'[m].Q0 + flux'[m].Q1 + flux'[m].Q2

\* C9 (as claimed): over one explicit step with zero evapotranspiration,
\* capillary rise and percolation, the change of the sum of the five storages
\* equals precipitation minus Q0 + Q1 + Q2, from any state the stepper reaches.
C9_WaterBalanceExact ==
    [][step' = step + 1 =>
        \A m \in Muls :
            QuietDay(m) =>
                Storages(m)' - Storages(m) = flux'[m].PRECIP - Outflow(m)]_vars

\* C9 (amended): over such a step the change of the sum of the storages is
\* precipitation minus Q0 + Q1 + Q2 plus the water the floor on SLZ adds,
\* max(nearzero - SLZ, 0) for the SLZ the step started from; the balance is
\* exact when the step starts with SLZ >= nearzero.
C9_WaterBalanceUpToFloor ==
    [][step' = step + 1 =>
        \A m \in Muls :
            QuietDay(m) =>
                Storages(m)' - Storages(m) =
                    flux'[m].PRECIP - Outflow(m) + Higher(nearzero - SLZ[m], 0)]_vars

\* a quiet day with rain and outflow has been computed
C9_Witness ==
    /\ Running
    /\ \E m \in Muls :
          /\ flux[m].AET = 0 /\ flux[m].capillary = 0 /\ flux[m].PERC = 0
          /\ flux[m].PRECIP > 0
          /\ flux[m].Q1 > 0
          /\ flux[m].Q2 > 0

-----------------------------------------------------------------------------
(* Properties of the drop mask *)

Unpacked == name_idx = Len(ParamNames)

\* the time index parameter name takes its value from, at step s, for basin b
\* and realization m
SourceRow(name, s, b, m) ==
    IF model = "HBV_adj" THEN parameter_dict[name][s][MergedIndex(b, m)][1]
    ELSE parameter_dict[name][s][b][m][1]

\* step s of basin b, realization m, uses the static value of name
Dropped(name, s, b, m) ==
    SourceRow(name, s, b, m) # (IF model = "HBV_adj" THEN warm_up + s ELSE s)

\* the steps at which the static row differs from the row of the step
DynSteps ==
    IF model = "HBV_adj" THEN 1..(NSteps - warm_up - 1)
    ELSE Steps \ {PyIndex(static_idx, NSteps)}

\* C10 (as claimed): in both models the drop mask of a dynamic parameter has
\* one value per basin: the same at every time step and the same for all
\* realizations of the basin.
C10_MaskPerBasin ==
    Unpacked =>
        \A name \in dy_params \cap NameSet : \A b \in Basins :
            \A s1 \in DynSteps, s2 \in DynSteps : \A m1 \in Muls, m2 \in Muls :
                Dropped(name, s1, b, m1) = Dropped(name, s2, b, m2)

\* the value of parameter name at position k of the run, merged element e,
\* is the static one
StaticAt(name, e) == name \notin dy_params \/ drmask[name][e] = 1

\* C11 (as claimed): during the run of HBV_adj every parameter that is not
\* dynamic, and every dynamic parameter whose mask is 1, takes at every step
\* the value of the raw series at the last warm-up step (index warm_up - 1).
C11_StaticFromLastWarmupStep ==
    (model = "HBV_adj" /\ Unpacked /\ warm_up >= 1) =>
        \A name \in NameSet : \A k \in RunSteps : \A e \in Merged :
            StaticAt(name, e) =>
                parameter_dict[name][k][e][1] = PyIndex(warm_up - 1, NSteps)

\* C12 (as claimed): a configured dynamic name that is not a physical
\* parameter makes the model fail at setup, before any time step of warm-up
\* or simulation is computed; the name is never ignored silently.
C12_UnknownDynamicNameFails ==
    (\E key \in dy_params : key \notin NameSet) =>
        /\ phase # "stepping"
        /\ computed = 0

-----------------------------------------------------------------------------
(* Properties of the forward evaluation *)

Finished == fpc \in {"returned", "raised"}
Undropped(val) == IF Len(val) = 3 /\ val[1] = "drop" THEN val[3] ELSE val

\* C13: with warm_up_states false HBVCapillary.forward returns its output
\* dictionary with every entry cut by exactly the first pred_cutoff (=
\* warm_up) time steps, and the truncation succeeds for every key.  Stated
\* for the runs with routing enabled, which reach the truncation loop.
C13_TruncationSucceeds ==
    (model = "HBV_1_1p" /\ ~warm_up_states /\ routing /\ Finished) =>
        /\ fpc = "returned"
        /\ \A k \in 1..Len(out_dict) :
               out_dict[k][2].shape[1] = NSteps - warm_up

\* C17: with routing disabled a forward evaluation in normal mode completes
\* without error and returns flow_sim equal to the mean over the realizations
\* of the unrouted flow; nothing unassigned on that path is read.
C17_RoutingDisabledCompletes ==
    (~routing /\ ~initialize /\ Finished) =>
        /\ fpc = "returned"
        /\ error = "none"
        /\ out_dict[1][1] = "flow_sim"
        /\ Undropped(out_dict[1][2].val) \in {"mean(Qsimmu)", "mean(simulation)"}

\* C18: for every configuration of HBV_adj, every parameter read by
\* HBV_function.forward has a bound in the table passed to it and a column in
\* the unpacked physical parameters, so no evaluation fails on a missing
\* bound or column.
C18_BoundsCoverReads ==
    (model = "HBV_adj" /\ fpc \notin {"none", "construct"}) =>
        /\ \A k \in 1..Len(FunctionReads) : FunctionReads[k] \in SeqSet(bounds_keys)
        /\ IsAssigned("phy_params") =>
               locals["phy_params"].shape[3] >= Len(FunctionReads)
        /\ error \notin {"KeyError parBETAET", "IndexError theta"}

-----------------------------------------------------------------------------
(* Properties of HBV_function.forward *)

RhsFluxes == Fluxes(y, theta, climate_in, parameter_bounds)
SumOf(q) == RAdd(RAdd(RAdd(RAdd(q[1], q[2]), q[3]), q[4]), q[5])

\* C19: the five components of the derivative dS returned by
\* HBV_function.forward sum to precipitation minus actual evaporation minus
\* the returned outflow fluxes[:,0] = q0 + q1 + q2, and snowfall + rainfall
\* is the precipitation at every temperature: the internal transfers cancel.
C19_DerivativeSumsToNetInput ==
    (rhs_pc = "returned" /\ ~returnFlux) =>
        /\ RAdd(RhsFluxes.flux_sf, RhsFluxes.flux_rf) = climate_in[1]
        /\ rhs_out[2] = RAdd(RAdd(RhsFluxes.flux_q0, RhsFluxes.flux_q1), RhsFluxes.flux_q2)
        /\ SumOf(rhs_out[1]) =
               RSub(RSub(climate_in[1], RhsFluxes.flux_et), rhs_out[2])

\* a returned derivative at the threshold temperature with every internal
\* transfer of the soil and groundwater stores active
C19_Witness ==
    /\ rhs_pc = "returned"
    /\ ~returnFlux
    /\ RGt(climate_in[1], R(0))
    /\ climate_in[2] = Descale(parameter_bounds, theta, 9)
    /\ RGt(RhsFluxes.flux_Isnow, R(0))
    /\ RGt(RhsFluxes.flux_PEFF, R(0))
    /\ RGt(RhsFluxes.flux_perc, R(0))
    /\ RGt(RhsFluxes.flux_et, R(0))
    /\ RGt(rhs_out[2], R(0))

-----------------------------------------------------------------------------
(* Properties of the merge of realizations in HBV_adj.forward *)

RunDays == 0..(n_steps - warm_up - 1)
\* the flow computed from realization r's parameters of basin b and the
\* forcing of basin g on a day of the run
FlowOf(day, b, r, g) ==
    [par |-> [c \in 1..ParamCount |-> <<"par", warm_up + day, b, c - 1, r>>],
     frc |-> [f \in 1..ForcingCount |-> <<"x", warm_up + day, g, f - 1>>]]
\* the merged elements whose parameters are realization r of basin b
Carriers(day, b, r) ==
    {k \in 0..(n_grid * nmul - 1) :
        Row(phy_params, warm_up + day, k) = FlowOf(day, b, r, b).par}

\* C20: merging realizations into the batch dimension is index-consistent:
\* exactly one merged element carries realization r's parameters of basin b,
\* that element is driven by basin b's forcing in the warm-up and in the run,
\* and the ensemble mean of basin b averages exactly the nmul merged elements
\* of basin b.
C20_MergeIndexConsistent ==
    /\ mpc \in {"simulate", "average", "averaged"} =>
          \A b \in 0..(n_grid - 1) : \A r \in 0..(nmul - 1) :
              /\ \A day \in RunDays :
                    /\ Cardinality(Carriers(day, b, r)) = 1
                    /\ \A k \in Carriers(day, b, r) :
                           Row(xTrain, day, k) = FlowOf(day, b, r, b).frc
              /\ \A d \in 0..(warm_up - 1) : \A k \in 0..(n_grid * nmul - 1) :
                    Row(phy_params, d, k)[1] = <<"par", d, b, 0, r>> =>
                        Row(x_warmup, d, k) = [f \in 1..ForcingCount |-> <<"x", d, b, f - 1>>]
    /\ mpc = "average" =>
          \A day \in RunDays : \A k \in 0..(n_grid * nmul - 1) :
              \E b \in 0..(n_grid - 1) : \E r \in 0..(nmul - 1) :
                  At(simulation, <<day, k, 0>>) = FlowOf(day, b, r, b)
    /\ mpc = "averaged" =>
          \A day \in RunDays : \A b \in 0..(n_grid - 1) :
              At(simulation, <<day, b, 0>>) =
                  IF nmul > 1
                  THEN {FlowOf(day, b, r, b) : r \in 0..(nmul - 1)}
                  ELSE FlowOf(day, b, 0, b)

\* an averaged run of several realizations and several basins after a warm-up
C20_Witness ==
    /\ mpc = "averaged"
    /\ nmul >= 2
    /\ n_grid >= 2
    /\ warm_up >= 1
    /\ simulation.shape = <<n_steps - warm_up, n_grid, 1>>
    /\ Cardinality(At(simulation, <<0, 1, 0>>)) = nmul

====
